---- MODULE Spec2Model ----
(***************************************************************************)
(* Browser-side controllers of the Sportsday scoreboard:                   *)
(*   - the score entry form     (src/js/controllers/score_set_controller)  *)
(*   - the status banner        (src/js/controllers/status_show_controller)*)
(*   - the score display initializer (select controls filled from JSON)    *)
(*   - the filter controller and the admin query console                   *)
(*                              (src/js/controllers/sqlite_controller)     *)
(*   - the log viewer           (src/js/controllers/console_controller)    *)
(* They share one event target, `document`, whose listener list is the     *)
(* only coupling between them.                                             *)
(***************************************************************************)
EXTENDS Integers, Sequences, FiniteSets, TLC

VARIABLES
    mounted,        \* score form f is connected (Stimulus lifecycle)
    listeners,      \* document's event listener list, in registration order
    statusValue,    \* score form: data-...-status-value attribute
    hasButtonTarget,\* score form: a "button" target exists in scope
    buttonColor,    \* score form: buttonTarget.style.backgroundColor
    fieldTargets,   \* score form: the "field" targets, in scope order
    dispatched,     \* events dispatched on document by the last operation
    thrown,         \* errors raised inside listeners during the last operation
    bannerMounted,  \* status banner b is connected
    innerHTML,      \* status banner: element.innerHTML
    displayMounted, \* display initializer is connected
    scoreValue,     \* display initializer: data-...-score-value (serialized)
    selectTargets,  \* display initializer: "select" targets [formId, value]
    locationSearch, \* location.search of the page
    consoleMounted, \* log viewer is connected
    documentHidden, \* document.hidden
    refreshInterval,\* log viewer: this.refreshInterval (0: undefined)
    activeTimers,   \* window: ids of the intervals set and not cleared
    nextTimer,      \* window: the id the next setInterval returns
    visibilityHandlers, \* document: registered visibilitychange listeners
    history,        \* query console: the entries of the history target
    inputValue,     \* query console: inputTarget.value
    commandHistory, \* query console: this.commandHistory
    requests,       \* query console: the executeCommand() calls past line 40
    nextElement     \* document: identity of the next created element

vars == <<mounted, listeners, statusValue, hasButtonTarget, buttonColor,
          fieldTargets, dispatched, thrown, bannerMounted, innerHTML,
          displayMounted, scoreValue, selectTargets, locationSearch,
          consoleMounted, documentHidden, refreshInterval, activeTimers,
          nextTimer, visibilityHandlers, history, inputValue, commandHistory,
          requests, nextElement>>

formVars    == <<mounted, statusValue, hasButtonTarget, buttonColor, fieldTargets>>
bannerVars  == <<bannerMounted, innerHTML>>
displayVars == <<displayMounted, scoreValue, selectTargets>>
consoleVars == <<consoleMounted, documentHidden, refreshInterval, activeTimers,
                 nextTimer, visibilityHandlers>>
sqliteVars  == <<history, inputValue, commandHistory, requests, nextElement>>
toolVars    == <<locationSearch, consoleVars, sqliteVars>>
scoreVars   == <<listeners, dispatched, thrown, formVars, bannerVars, displayVars>>

----------------------------------------------------------------------------
(* Bounds *)

NForms == 2
NBanners == 1
MaxListeners == 2

Forms   == 1..NForms
Banners == 1..NBanners

MaxFields == 2
MaxSelects == 2
MaxTimers == 5
MaxHandlers == 3
MaxCommands == 2

(* A string the code looks inside (an element id, a serialization, a       *)
(* data-form-id) is a sequence of one-character strings.                   *)

----------------------------------------------------------------------------
(* Score entry form: envelope construction (submit, lines 21-25) *)

Undefined == <<"u","n","d","e","f","i","n","e","d">>

\* String.prototype.split("-"): the maximal dash-free runs, empty runs kept.
RECURSIVE SplitDash(_, _, _)
SplitDash(s, cur, acc) ==
    IF s = <<>> THEN Append(acc, cur)
    ELSE IF Head(s) = "-" THEN SplitDash(Tail(s), <<>>, Append(acc, cur))
    ELSE SplitDash(Tail(s), Append(cur, Head(s)), acc)

Split(s) == SplitDash(s, <<>>, <<>>)

\* Mutant: off-by-one segment index, split("-")[2].
FieldKeyThirdSegment(id) ==
    LET parts == Split(id) IN IF Len(parts) >= 3 THEN parts[3] ELSE Undefined

\* val.id.split("-")[3], used as a property key: a missing element is the
\* value undefined, whose property key is the string "undefined".
FieldKey(id) ==
    LET parts == Split(id) IN IF Len(parts) >= 4 THEN parts[4] ELSE Undefined

\* obj[key] = value on a plain object.
SetProp(obj, key, value) ==
    [k \in DOMAIN obj \cup {key} |-> IF k = key THEN value ELSE obj[k]]

\* this.fieldTargets.forEach(val => obj[form_id] = val.value)
RECURSIVE BuildScores(_, _)
BuildScores(flds, obj) ==
    IF flds = <<>> THEN obj
    ELSE BuildScores(Tail(flds),
                     SetProp(obj, FieldKey(Head(flds).id), Head(flds).value))

\* this.formTarget.id of form f.
FormTargetId(f) == <<"form", f>>

ScoreUpdate(f) ==
    [name |-> "scoreUpdate",
     detail |-> [event_id |-> FormTargetId(f),
                 scores |-> BuildScores(fieldTargets[f], <<>>)]]

ScoreUpdateSubmitted == [name |-> "scoreUpdateSubmitted", detail |-> <<>>]

UpdateStatus(p) == [name |-> "updateStatus", detail |-> [status |-> p]]

----------------------------------------------------------------------------
(* Listeners.  A page state is the part of the DOM the listeners write.     *)

Page == [statusValue |-> statusValue, buttonColor |-> buttonColor,
         innerHTML |-> innerHTML, thrown |-> <<>>]

MissingButton(f) == <<"Missing target element", "button", f>>

\* Mutant: the listener without its status guard.
ScoreUpdateSubmittedUnguarded(s, f) ==
    IF hasButtonTarget[f]
    THEN [s EXCEPT !.buttonColor[f] = "green", !.statusValue[f] = "completed"]
    ELSE [s EXCEPT !.thrown = Append(@, MissingButton(f))]

\* The scoreUpdateSubmitted listener of form f (connect, lines 10-16).
\* this.buttonTarget throws when the scope has no button target; the throw
\* leaves the listener before the status is written, and document reports
\* it without stopping delivery to the other listeners.
ScoreUpdateSubmittedListener(s, f) ==
    IF s.statusValue[f] = "pending"
    THEN IF hasButtonTarget[f]
         THEN [s EXCEPT !.buttonColor[f] = "green", !.statusValue[f] = "completed"]
         ELSE [s EXCEPT !.thrown = Append(@, MissingButton(f))]
    ELSE s

\* Mutant: the listener fills an empty banner and leaves a filled one alone.
UpdateStatusFirstWins(s, b, ev) ==
    IF s.innerHTML[b] = "" THEN [s EXCEPT !.innerHTML[b] = ev.detail.status] ELSE s

\* The updateStatus listener of banner b (connect, lines 6-8).
UpdateStatusListener(s, b, ev) == [s EXCEPT !.innerHTML[b] = ev.detail.status]

\* Mutant: the form's listener answers events of every type.
InvokeAnyEvent(s, l, ev) ==
    IF l.type = "scoreUpdateSubmitted" THEN ScoreUpdateSubmittedListener(s, l.owner)
    ELSE IF l.type = ev.name THEN UpdateStatusListener(s, l.owner, ev)
    ELSE s

\* One listener-list entry meets one event: the entry's type selects.
Invoke(s, l, ev) ==
    IF l.type # ev.name THEN s
    ELSE IF l.type = "scoreUpdateSubmitted" THEN ScoreUpdateSubmittedListener(s, l.owner)
    ELSE UpdateStatusListener(s, l.owner, ev)

\* document.dispatchEvent: every registered listener of the event's type,
\* in registration order, on the caller's stack.
RECURSIVE DeliverFrom(_, _, _)
DeliverFrom(s, ev, i) ==
    IF i > Len(listeners) THEN s
    ELSE DeliverFrom(Invoke(s, listeners[i], ev), ev, i + 1)

Deliver(s, ev) == DeliverFrom(s, ev, 1)

\* document.addEventListener(type, <new arrow function>): always one more entry.
AddEventListener(ls, type, owner) == Append(ls, [type |-> type, owner |-> owner])

\* Mutant: the status written without looking for the button.
SubmitStatusUnconditional(s, f) ==
    [s EXCEPT !.buttonColor[f] = "yellow", !.statusValue[f] = "pending"]

\* Mutant: the wrong status constant.
SubmitStatusCompleted(s, f) ==
    IF hasButtonTarget[f]
    THEN [s EXCEPT !.buttonColor[f] = "yellow", !.statusValue[f] = "completed"]
    ELSE s

\* submit() has no early return: a connected form takes it in any status.
SubmitGuard(f) == mounted[f]

\* submit, lines 33-37.
SubmitStatus(s, f) ==
    IF hasButtonTarget[f]
    THEN [s EXCEPT !.buttonColor[f] = "yellow", !.statusValue[f] = "pending"]
    ELSE s

\* Mutant: the status written before the event is dispatched.
SubmitEffectStatusFirst(f, ack) ==
    LET s0 == Deliver(SubmitStatus(Page, f), ScoreUpdate(f))
    IN IF ack THEN Deliver(s0, ScoreUpdateSubmitted) ELSE s0

\* submit, lines 27-37: dispatchEvent returns after every listener has run
\* (and after whatever those listeners dispatched in turn); only then is
\* the status written.
SubmitEffect(f, ack) ==
    LET s0 == Deliver(Page, ScoreUpdate(f))
        s1 == IF ack THEN Deliver(s0, ScoreUpdateSubmitted) ELSE s0
    IN SubmitStatus(s1, f)

Commit(s) ==
    /\ statusValue' = s.statusValue
    /\ buttonColor' = s.buttonColor
    /\ innerHTML' = s.innerHTML
    /\ thrown' = s.thrown

----------------------------------------------------------------------------
(* Score display initializer: JSON.parse, property lookup, toString.       *)
(* Serializations are read character by character.  The grammar covered is *)
(* JSON over objects, arrays, strings without escapes, non-negative        *)
(* integers, true, false and null, with spaces as white space.             *)

Digits == <<"0","1","2","3","4","5","6","7","8","9">>
IsDigit(c) == \E d \in 1..10 : Digits[d] = c
DigitVal(c) == (CHOOSE d \in 1..10 : Digits[d] = c) - 1

JsUndefined == [t |-> "undefined"]
JsNull      == [t |-> "null"]
JsNum(n)    == [t |-> "num", n |-> n]
JsStr(cs)   == [t |-> "str", s |-> cs]
JsBool(b)   == [t |-> "bool", b |-> b]
JsArr(a)    == [t |-> "arr", a |-> a]
JsObj(o)    == [t |-> "obj", o |-> o]
TypeError   == [t |-> "throw"]

ParseFail == [ok |-> FALSE, v |-> JsUndefined, rest |-> <<>>]
Parsed(v, rest) == [ok |-> TRUE, v |-> v, rest |-> rest]

RECURSIVE SkipWs(_)
SkipWs(s) == IF s # <<>> /\ Head(s) = " " THEN SkipWs(Tail(s)) ELSE s

HasPrefix(s, p) == Len(s) >= Len(p) /\ SubSeq(s, 1, Len(p)) = p
Drop(s, n) == SubSeq(s, n + 1, Len(s))

\* The characters of a string up to its closing quote.
RECURSIVE ParseString(_, _)
ParseString(s, acc) ==
    IF s = <<>> \/ Head(s) = "\\" THEN ParseFail
    ELSE IF Head(s) = "\"" THEN Parsed(JsStr(acc), Tail(s))
    ELSE ParseString(Tail(s), Append(acc, Head(s)))

\* int: "0", or a non-zero digit followed by digits.
RECURSIVE ParseDigits(_, _)
ParseDigits(s, n) ==
    IF s # <<>> /\ IsDigit(Head(s)) THEN ParseDigits(Tail(s), 10 * n + DigitVal(Head(s)))
    ELSE Parsed(JsNum(n), s)

ParseNumber(s) ==
    IF Head(s) = "0" THEN Parsed(JsNum(0), Tail(s)) ELSE ParseDigits(s, 0)

RECURSIVE ParseValue(_)
RECURSIVE ParseElements(_, _, _)
RECURSIVE ParseMembers(_, _, _)

ParseValue(s0) ==
    LET s == SkipWs(s0) IN
    IF s = <<>> THEN ParseFail
    ELSE IF Head(s) = "{" THEN ParseMembers(SkipWs(Tail(s)), <<>>, TRUE)
    ELSE IF Head(s) = "[" THEN ParseElements(SkipWs(Tail(s)), <<>>, TRUE)
    ELSE IF Head(s) = "\"" THEN ParseString(Tail(s), <<>>)
    ELSE IF IsDigit(Head(s)) THEN ParseNumber(s)
    ELSE IF HasPrefix(s, <<"n","u","l","l">>) THEN Parsed(JsNull, Drop(s, 4))
    ELSE IF HasPrefix(s, <<"t","r","u","e">>) THEN Parsed(JsBool(TRUE), Drop(s, 4))
    ELSE IF HasPrefix(s, <<"f","a","l","s","e">>) THEN Parsed(JsBool(FALSE), Drop(s, 5))
    ELSE ParseFail

\* s starts after "[" or after a ","; white space before it is skipped.
ParseElements(s, acc, first) ==
    IF s = <<>> THEN ParseFail
    ELSE IF first /\ Head(s) = "]" THEN Parsed(JsArr(acc), Tail(s))
    ELSE LET e == ParseValue(s)
             r == SkipWs(e.rest)
         IN IF ~e.ok \/ r = <<>> THEN ParseFail
            ELSE IF Head(r) = "," THEN ParseElements(SkipWs(Tail(r)), Append(acc, e.v), FALSE)
            ELSE IF Head(r) = "]" THEN Parsed(JsArr(Append(acc, e.v)), Tail(r))
            ELSE ParseFail

\* s starts after "{" or after a ","; a repeated key keeps its last value.
ParseMembers(s, obj, first) ==
    IF s = <<>> THEN ParseFail
    ELSE IF first /\ Head(s) = "}" THEN Parsed(JsObj(obj), Tail(s))
    ELSE IF Head(s) # "\"" THEN ParseFail
    ELSE LET k == ParseString(Tail(s), <<>>)
             c == SkipWs(k.rest)
         IN IF ~k.ok \/ c = <<>> \/ Head(c) # ":" THEN ParseFail
            ELSE LET e == ParseValue(Tail(c))
                     r == SkipWs(e.rest)
                 IN IF ~e.ok \/ r = <<>> THEN ParseFail
                    ELSE IF Head(r) = ","
                         THEN ParseMembers(SkipWs(Tail(r)), SetProp(obj, k.v.s, e.v), FALSE)
                    ELSE IF Head(r) = "}"
                         THEN Parsed(JsObj(SetProp(obj, k.v.s, e.v)), Tail(r))
                    ELSE ParseFail

\* JSON.parse: one value, then nothing but white space; otherwise SyntaxError.
JSONParse(s) ==
    LET r == ParseValue(s) IN
    IF r.ok /\ SkipWs(r.rest) = <<>> THEN r ELSE ParseFail

RECURSIVE NatToChars(_)
NatToChars(n) ==
    IF n < 10 THEN <<Digits[n + 1]>> ELSE Append(NatToChars(n \div 10), Digits[(n % 10) + 1])

\* A canonical array index: "0", or digits not starting with "0".
IsIndex(key) ==
    /\ key # <<>>
    /\ \A i \in 1..Len(key) : IsDigit(key[i])
    /\ (Len(key) = 1 \/ key[1] # "0")

RECURSIVE CharsToNat(_, _)
CharsToNat(cs, n) ==
    IF cs = <<>> THEN n ELSE CharsToNat(Tail(cs), 10 * n + DigitVal(Head(cs)))

LengthKey == <<"l","e","n","g","t","h">>

\* eventScores[formId].  Reading a property of null throws; a number or a
\* boolean has none of these properties; a string and an array have indices
\* and length; an object has its own members.
GetProp(v, key) ==
    IF v.t = "null" THEN TypeError
    ELSE IF v.t = "obj" THEN (IF key \in DOMAIN v.o THEN v.o[key] ELSE JsUndefined)
    ELSE IF v.t = "arr" THEN
        IF key = LengthKey THEN JsNum(Len(v.a))
        ELSE IF IsIndex(key) /\ CharsToNat(key, 0) < Len(v.a) THEN v.a[CharsToNat(key, 0) + 1]
        ELSE JsUndefined
    ELSE IF v.t = "str" THEN
        IF key = LengthKey THEN JsNum(Len(v.s))
        ELSE IF IsIndex(key) /\ CharsToNat(key, 0) < Len(v.s)
             THEN JsStr(<<v.s[CharsToNat(key, 0) + 1]>>)
        ELSE JsUndefined
    ELSE JsUndefined

\* formScore.toString()
RECURSIVE JsToString(_)
RECURSIVE JoinElements(_, _)
JsToString(v) ==
    IF v.t = "num" THEN NatToChars(v.n)
    ELSE IF v.t = "str" THEN v.s
    ELSE IF v.t = "bool" THEN
        (IF v.b THEN <<"t","r","u","e">> ELSE <<"f","a","l","s","e">>)
    ELSE IF v.t = "arr" THEN JoinElements(v.a, 1)
    ELSE <<"[","o","b","j","e","c","t"," ","O","b","j","e","c","t","]">>

JoinElements(a, i) ==
    IF i > Len(a) THEN <<>>
    ELSE (IF i > 1 THEN <<",">> ELSE <<>>)
         \o (IF a[i].t \in {"null", "undefined"} THEN <<>> ELSE JsToString(a[i]))
         \o JoinElements(a, i + 1)

NoAttribute == <<"(no data-form-id)">>   \* getAttribute returned null
Zero == <<"0">>

\* Mutant: the stored score is tested for truthiness.
SelectValueTruthy(sv, formId) ==
    LET p == JSONParse(sv) IN
    IF ~p.ok THEN Zero
    ELSE IF formId = NoAttribute \/ formId = <<>> THEN Zero
    ELSE LET formScore == GetProp(p.v, formId) IN
         IF formScore.t = "throw" THEN Zero
         ELSE IF formScore.t \in {"undefined", "null"} \/ formScore = JsNum(0)
                 \/ formScore = JsBool(FALSE) \/ formScore = JsStr(<<>>)
              THEN Zero
         ELSE JsToString(formScore)

\* The value one select ends with (connect, lines 12-33): the body of the
\* try block, with every throw inside it caught and answered by "0".
SelectValue(sv, formId) ==
    LET p == JSONParse(sv) IN
    IF ~p.ok THEN Zero
    ELSE IF formId = NoAttribute \/ formId = <<>> THEN Zero
    ELSE LET formScore == GetProp(p.v, formId) IN
         IF formScore.t = "throw" THEN Zero
         ELSE IF formScore.t \notin {"undefined", "null"} THEN JsToString(formScore)
         ELSE Zero

\* The errors that leave the forEach callback: every statement is inside try.
EscapesTry(sv) == <<>>

\* Mutant: a control without an identifier keeps the value it had.
RECURSIVE ForEachSelectKeepsUnidentified(_, _, _)
ForEachSelectKeepsUnidentified(sv, sels, i) ==
    IF i > Len(sels) THEN [sels |-> sels, thrown |-> <<>>]
    ELSE IF sels[i].formId \in {NoAttribute, <<>>}
         THEN ForEachSelectKeepsUnidentified(sv, sels, i + 1)
    ELSE ForEachSelectKeepsUnidentified(
             sv, [sels EXCEPT ![i].value = SelectValue(sv, sels[i].formId)], i + 1)

\* this.selectTargets.forEach(...): a callback that throws ends the loop.
RECURSIVE ForEachSelect(_, _, _)
ForEachSelect(sv, sels, i) ==
    IF i > Len(sels) THEN [sels |-> sels, thrown |-> <<>>]
    ELSE IF EscapesTry(sv) # <<>> THEN [sels |-> sels, thrown |-> EscapesTry(sv)]
    ELSE ForEachSelect(sv, [sels EXCEPT ![i].value = SelectValue(sv, sels[i].formId)], i + 1)


----------------------------------------------------------------------------
(* Filter controller: URLSearchParams over location.search.  Names and      *)
(* values are letters, digits and spaces, so "+" is the only escape.        *)

\* The pieces of s between occurrences of sep, empty pieces kept.
RECURSIVE SplitOn(_, _, _, _)
SplitOn(s, sep, cur, acc) ==
    IF s = <<>> THEN Append(acc, cur)
    ELSE IF Head(s) = sep THEN SplitOn(Tail(s), sep, <<>>, Append(acc, cur))
    ELSE SplitOn(Tail(s), sep, Append(cur, Head(s)), acc)

\* application/x-www-form-urlencoded decoding: "+" is a space.
PlusDecode(s) == [i \in 1..Len(s) |-> IF s[i] = "+" THEN " " ELSE s[i]]

\* and encoding: a space is "+".
PlusEncode(s) == [i \in 1..Len(s) |-> IF s[i] = " " THEN "+" ELSE s[i]]

\* One "name=value" piece: split at the first "="; no "=" is an empty value.
PairOf(piece) ==
    IF \E i \in 1..Len(piece) : piece[i] = "="
    THEN LET e == CHOOSE i \in 1..Len(piece) :
                      piece[i] = "=" /\ \A j \in 1..(i - 1) : piece[j] # "="
         IN [name |-> PlusDecode(SubSeq(piece, 1, e - 1)),
             value |-> PlusDecode(SubSeq(piece, e + 1, Len(piece)))]
    ELSE [name |-> PlusDecode(piece), value |-> <<>>]

RECURSIVE PairsOf(_)
PairsOf(pieces) ==
    IF pieces = <<>> THEN <<>>
    ELSE IF Head(pieces) = <<>> THEN PairsOf(Tail(pieces))
    ELSE <<PairOf(Head(pieces))>> \o PairsOf(Tail(pieces))

\* new URLSearchParams(search): one leading "?" is dropped, empty pieces
\* between "&" are skipped.
URLSearchParams(search) ==
    PairsOf(SplitOn(IF search # <<>> /\ Head(search) = "?" THEN Tail(search) ELSE search,
                    "&", <<>>, <<>>))

RECURSIVE WithoutName(_, _)
WithoutName(params, name) ==
    IF params = <<>> THEN <<>>
    ELSE IF Head(params).name = name THEN WithoutName(Tail(params), name)
    ELSE <<Head(params)>> \o WithoutName(Tail(params), name)

\* params.delete(name): every pair of that name goes.
ParamsDelete(params, name) == WithoutName(params, name)

\* Mutant: params.append in place of params.set.
ParamsAppend(params, name, value) == Append(params, [name |-> name, value |-> value])

\* params.set(name, value): the first pair of that name takes the value and
\* the later ones go; with no such pair, one is appended.
RECURSIVE ParamsSet(_, _, _)
ParamsSet(params, name, value) ==
    IF params = <<>> THEN <<[name |-> name, value |-> value]>>
    ELSE IF Head(params).name = name
         THEN <<[name |-> name, value |-> value]>> \o WithoutName(Tail(params), name)
    ELSE <<Head(params)>> \o ParamsSet(Tail(params), name, value)

\* params.toString(): name=value joined by "&".
RECURSIVE ParamsToString(_)
ParamsToString(params) ==
    IF params = <<>> THEN <<>>
    ELSE PlusEncode(Head(params).name) \o <<"=">> \o PlusEncode(Head(params).value)
         \o (IF Len(params) > 1 THEN <<"&">> ELSE <<>>)
         \o ParamsToString(Tail(params))

All == <<"a","l","l">>

\* filter, lines 124-129.
FilteredParams(search, key, value) ==
    IF value # All
    THEN ParamsSet(URLSearchParams(search), key, value)
    ELSE ParamsDelete(URLSearchParams(search), key)

\* Mutant: the template without its "?".
RedirectParamsBare(params) == ParamsToString(params)

\* `?${params}`, line 134.
RedirectParams(params) == <<"?">> \o ParamsToString(params)

DoSafeScoreRedirect(search, key, value) ==
    [name |-> "doSafeScoreRedirect",
     detail |-> [params |-> RedirectParams(FilteredParams(search, key, value))]]

\* location.search after a navigation to the given query: "" for a bare "?".
SearchOf(query) == IF query = <<"?">> THEN <<>> ELSE query

----------------------------------------------------------------------------
(* Log viewer: the auto-refresh interval and the visibility listener.      *)
(* The window's timers are the ids returned by setInterval and not yet      *)
(* cleared; the controller remembers one id in this.refreshInterval.       *)

Timers == [refreshInterval |-> refreshInterval, activeTimers |-> activeTimers,
           nextTimer |-> nextTimer]

\* startAutoRefresh, lines 73-79: a new interval, whatever the field held.
StartAutoRefresh(t) ==
    [refreshInterval |-> t.nextTimer,
     activeTimers |-> t.activeTimers \cup {t.nextTimer},
     nextTimer |-> t.nextTimer + 1]

\* stopAutoRefresh, lines 81-86: clears the interval the field names.
StopAutoRefresh(t) ==
    IF t.refreshInterval # 0
    THEN [t EXCEPT !.activeTimers = @ \ {t.refreshInterval}, !.refreshInterval = 0]
    ELSE t

\* handleVisibilityChange, lines 88-94.
HandleVisibilityChange(t, hidden) ==
    IF hidden THEN StopAutoRefresh(t) ELSE StartAutoRefresh(t)

\* The visibilitychange event: every registered listener runs once.
RECURSIVE DeliverVisibilityChange(_, _, _)
DeliverVisibilityChange(t, hidden, n) ==
    IF n = 0 THEN t
    ELSE DeliverVisibilityChange(HandleVisibilityChange(t, hidden), hidden, n - 1)

\* document.removeEventListener(type, this.handleVisibilityChange.bind(this)),
\* lines 28-31: bind returns a new function, equal to no registered listener.
RemoveBoundListener(n) == n

SetTimers(t) ==
    /\ refreshInterval' = t.refreshInterval
    /\ activeTimers' = t.activeTimers
    /\ nextTimer' = t.nextTimer

----------------------------------------------------------------------------
(* Admin query console: the history display while requests are in flight.  *)
(* A history entry is an element: its identity, class and text.  Fixed     *)
(* texts are kept whole; texts that come from the user or the server are    *)
(* character sequences.                                                     *)

RECURSIVE TrimStart(_)
TrimStart(s) == IF s # <<>> /\ Head(s) = " " THEN TrimStart(Tail(s)) ELSE s

RECURSIVE TrimEnd(_)
TrimEnd(s) == IF s # <<>> /\ s[Len(s)] = " " THEN TrimEnd(SubSeq(s, 1, Len(s) - 1)) ELSE s

\* String.prototype.trim
Trim(s) == TrimEnd(TrimStart(s))

\* ToBoolean
Truthy(v) ==
    CASE v.t \in {"undefined", "null"} -> FALSE
      [] v.t = "bool" -> v.b
      [] v.t = "num" -> v.n # 0
      [] v.t = "str" -> v.s # <<>>
      [] OTHER -> TRUE

\* addToHistory, lines 99-108: a new element appended to the history target.
AddToHistory(h, id, content, className) ==
    Append(h, [id |-> id, className |-> className, content |-> content])

\* Element.remove(): nothing happens when the element is not in the tree.
RemoveElement(h, id) == SelectSeq(h, LAMBDA e : e.id # id)

\* Mutant: the catch branch without its loadingElement.remove().
CatchBranchKeepsLoading(h, loading, id, message) ==
    AddToHistory(h, id, <<"Error: ", message>>, "command-error")

\* catch, lines 71-74.
CatchBranch(h, loading, id, message) ==
    AddToHistory(RemoveElement(h, loading), id, <<"Error: ", message>>, "command-error")

SuccessKey == <<"s","u","c","c","e","s","s">>
OutputKey  == <<"o","u","t","p","u","t">>
ErrorKey   == <<"e","r","r","o","r">>

Caught(message) == [caught |-> TRUE, message |-> message]
Entry(content, className) == [caught |-> FALSE, content |-> content, className |-> className]

\* Lines 55-66 on a response body: the entry to append, or the error that
\* reaches catch.  response.json() rejects when the body is not JSON; result
\* may be null; result.output.trim() needs output to be a string.
ResultOf(body) ==
    LET p == JSONParse(body) IN
    IF ~p.ok THEN Caught("SyntaxError")
    ELSE LET success == GetProp(p.v, SuccessKey) IN
         IF success.t = "throw" THEN Caught("TypeError")
         ELSE IF Truthy(success)
         THEN LET output == GetProp(p.v, OutputKey) IN
              IF output.t # "str" THEN Caught("TypeError")
              ELSE IF Trim(output.s) # <<>> THEN Entry(output.s, "command-output")
              ELSE Entry(<<"Query executed successfully.">>, "command-output")
         ELSE LET error == GetProp(p.v, ErrorKey) IN
              Entry(<<"Error: ">> \o (IF Truthy(error) THEN JsToString(error)
                                      ELSE <<"Unknown error occurred">>),
                    "command-error")

----------------------------------------------------------------------------
(* Inputs *)

StatusValues == {"pending", "completed"}

Id_evt1 == <<"r","-","a","-","b","-","x">>          \* 4th segment "x"
Id_evt2 == <<"r","-","a","-","b","-","y">>          \* 4th segment "y"
Id_none == <<"r","-","a","-","b">>                  \* no 4th segment
Id_long == <<"r","-","a","-","y","-","x","-","z">>  \* 4th "x", a 5th follows

FieldIds == {Id_evt1, Id_evt2, Id_none, Id_long}
FieldValues == {"5", "2"}
Field == [id : FieldIds, value : FieldValues]

DefaultFields == << [id |-> Id_evt1, value |-> "5"], [id |-> Id_evt2, value |-> "2"] >>

Payloads == {"<b>saved</b>", "saving"}

S_empty     == <<>>
S_text      == <<"e","1","=","3">>
S_truncated == <<"{","\"","e","1","\"",":","3">>
S_trailing  == <<"{","}","}">>
S_leadzero  == <<"{","\"","e","1","\"",":","0","3","}">>
S_null      == <<"n","u","l","l">>
S_number    == <<"3">>
S_true      == <<"t","r","u","e">>
S_string    == <<"\"","7","a","\"">>
S_array     == <<"[","7","]">>
S_emptyObj  == <<"{","}">>
S_score     == <<"{","\"","e","1","\"",":","3","}">>
S_nullScore == <<"{","\"","e","1","\"",":","n","u","l","l","}">>
S_falsy     == <<"{","\"","e","1","\"",":","f","a","l","s","e",","," ","\"","0","\"",":","0","}">>
S_two       == <<"{","\"","e","1","\"",":","1","0",",","\"","e","1","\"",":","1","2","}">>

ScoreSerializations ==
    {S_empty, S_text, S_truncated, S_trailing, S_leadzero, S_null, S_number, S_true,
     S_string, S_array, S_emptyObj, S_score, S_nullScore, S_falsy, S_two}

FormIdentifiers == {NoAttribute, <<>>, <<"e","1">>, <<"e","9">>, <<"0">>}
SelectValuesBefore == {<<>>, <<"9">>}
Select == [formId : FormIdentifiers, value : SelectValuesBefore]

House == <<"h","o","u","s","e">>
Year  == <<"y","e","a","r">>
Red   == <<"r","e","d">>
Y2024 == <<"2","0","2","4">>
Q_scenario == <<"?">> \o House \o <<"=">> \o All \o <<"&">> \o Year \o <<"=">> \o Y2024
Q_repeated == <<"?">> \o Year \o <<"=">> \o Y2024 \o <<"&">> \o House \o <<"=">> \o Red
                  \o <<"&","&">> \o House \o <<"=">> \o <<"b","+","c">>
Q_bare     == <<"?">> \o <<"f","l","a","g","&">> \o Year

FilterKeys == {House, Year}
FilterValues == {All, Red, <<"y"," ","7">>}
InitialSearches == {<<>>, Q_scenario, Q_repeated, Q_bare}

\* Response bodies, as sent: rows, a blank output, no output member, a
\* failure with and without a message, null, and a page that is not JSON.
B_rows     == <<"{","\"","s","u","c","c","e","s","s","\"",":","t","r","u","e",",","\"","o","u","t","p","u","t","\"",":","\"","a"," ","b","\"","}">>
B_blank    == <<"{","\"","s","u","c","c","e","s","s","\"",":","t","r","u","e",",","\"","o","u","t","p","u","t","\"",":","\""," ","\"","}">>
B_noOutput == <<"{","\"","s","u","c","c","e","s","s","\"",":","t","r","u","e","}">>
B_error    == <<"{","\"","s","u","c","c","e","s","s","\"",":","f","a","l","s","e",",","\"","e","r","r","o","r","\"",":","\"","n","o","\"","}">>
B_unknown  == <<"{","\"","s","u","c","c","e","s","s","\"",":","f","a","l","s","e","}">>
B_null     == <<"n","u","l","l">>
B_html     == <<"<","h","1",">">>
Bodies == {B_rows, B_blank, B_noOutput, B_error, B_unknown, B_null, B_html}

CommandInputs == {<<>>, <<" "," ">>, <<"q">>, <<" ","q"," ","r"," ">>}
FetchOutcomes == {"ok", "status", "reject"}

----------------------------------------------------------------------------
(* Actions *)

\* Mutant: a connecting form is handed the completion event of the step before.
FormConnectReplays(f) ==
    /\ ~mounted[f]
    /\ Len(listeners) < MaxListeners
    /\ mounted' = [mounted EXCEPT ![f] = TRUE]
    /\ listeners' = AddEventListener(listeners, "scoreUpdateSubmitted", f)
    /\ dispatched' = <<>>
    /\ LET s == IF dispatched # <<>> /\ dispatched[Len(dispatched)] = ScoreUpdateSubmitted
                THEN ScoreUpdateSubmittedListener(Page, f) ELSE Page
       IN Commit(s)
    /\ UNCHANGED <<hasButtonTarget, fieldTargets, bannerMounted, displayVars>>
    /\ UNCHANGED toolVars

\* score_set_controller connect()
FormConnect(f) ==
    /\ ~mounted[f]
    /\ Len(listeners) < MaxListeners
    /\ mounted' = [mounted EXCEPT ![f] = TRUE]
    /\ listeners' = AddEventListener(listeners, "scoreUpdateSubmitted", f)
    /\ dispatched' = <<>>
    /\ thrown' = <<>>
    /\ UNCHANGED <<statusValue, hasButtonTarget, buttonColor, fieldTargets>>
    /\ UNCHANGED <<bannerVars, displayVars>>
    /\ UNCHANGED toolVars

\* The controller defines no disconnect(): the element leaves the page and
\* nothing else happens.
FormDisconnect(f) ==
    /\ mounted[f]
    /\ mounted' = [mounted EXCEPT ![f] = FALSE]
    /\ dispatched' = <<>>
    /\ thrown' = <<>>
    /\ UNCHANGED <<listeners, statusValue, hasButtonTarget, buttonColor, fieldTargets>>
    /\ UNCHANGED <<bannerVars, displayVars>>
    /\ UNCHANGED toolVars

\* score_set_controller submit().  ack: a scoreUpdate listener outside this
\* repository answers on the same stack by dispatching scoreUpdateSubmitted.
Submit(f, ack) ==
    /\ SubmitGuard(f)
    /\ Commit(SubmitEffect(f, ack))
    /\ dispatched' = <<ScoreUpdate(f)>> \o (IF ack THEN <<ScoreUpdateSubmitted>> ELSE <<>>)
    /\ UNCHANGED <<mounted, listeners, hasButtonTarget, fieldTargets>>
    /\ UNCHANGED <<bannerMounted, displayVars>>
    /\ UNCHANGED toolVars

\* The page's transport dispatches scoreUpdateSubmitted on document.
CompletionEvent ==
    /\ Commit(Deliver(Page, ScoreUpdateSubmitted))
    /\ dispatched' = <<ScoreUpdateSubmitted>>
    /\ UNCHANGED <<mounted, listeners, hasButtonTarget, fieldTargets>>
    /\ UNCHANGED <<bannerMounted, displayVars>>
    /\ UNCHANGED toolVars

\* status_show_controller connect()
BannerConnect(b) ==
    /\ ~bannerMounted[b]
    /\ Len(listeners) < MaxListeners
    /\ bannerMounted' = [bannerMounted EXCEPT ![b] = TRUE]
    /\ listeners' = AddEventListener(listeners, "updateStatus", b)
    /\ dispatched' = <<>>
    /\ thrown' = <<>>
    /\ UNCHANGED <<formVars, innerHTML, displayVars>>
    /\ UNCHANGED toolVars

\* No disconnect() either.
BannerDisconnect(b) ==
    /\ bannerMounted[b]
    /\ bannerMounted' = [bannerMounted EXCEPT ![b] = FALSE]
    /\ dispatched' = <<>>
    /\ thrown' = <<>>
    /\ UNCHANGED <<listeners, formVars, innerHTML, displayVars>>
    /\ UNCHANGED toolVars

\* Some part of the page dispatches updateStatus with a rendered fragment.
StatusEvent(p) ==
    /\ Commit(Deliver(Page, UpdateStatus(p)))
    /\ dispatched' = <<UpdateStatus(p)>>
    /\ UNCHANGED <<mounted, listeners, hasButtonTarget, fieldTargets>>
    /\ UNCHANGED <<bannerMounted, displayVars>>
    /\ UNCHANGED toolVars

\* The display initializer's connect().
DisplayConnect ==
    /\ ~displayMounted
    /\ displayMounted' = TRUE
    /\ LET r == ForEachSelect(scoreValue, selectTargets, 1) IN
         /\ selectTargets' = r.sels
         /\ thrown' = r.thrown
    /\ dispatched' = <<>>
    /\ UNCHANGED <<scoreValue, listeners, formVars, bannerVars>>
    /\ UNCHANGED toolVars

\* It defines no disconnect().
DisplayDisconnect ==
    /\ displayMounted
    /\ displayMounted' = FALSE
    /\ dispatched' = <<>>
    /\ thrown' = <<>>
    /\ UNCHANGED <<scoreValue, selectTargets, listeners, formVars, bannerVars>>
    /\ UNCHANGED toolVars

\* filter controller filter(), for a controller whose key and value are
\* the given data values.  Nothing in it navigates.
Filter(key, value) ==
    /\ dispatched' = <<DoSafeScoreRedirect(locationSearch, key, value)>>
    /\ thrown' = <<>>
    /\ UNCHANGED <<locationSearch, listeners, formVars, bannerVars, displayVars>>
    /\ UNCHANGED <<consoleVars, sqliteVars>>

\* The page's redirect handler follows the request: a new page at that query.
Navigate ==
    /\ dispatched # <<>>
    /\ dispatched[1].name = "doSafeScoreRedirect"
    /\ locationSearch' = SearchOf(dispatched[1].detail.params)
    /\ dispatched' = <<>>
    /\ thrown' = <<>>
    /\ UNCHANGED <<listeners, formVars, bannerVars, displayVars>>
    /\ UNCHANGED <<consoleVars, sqliteVars>>

\* console_controller connect().  scrollThrows: the scope has a checked
\* auto-scroll target and no output target, so line 14 throws and the rest
\* of connect() does not run.
ConsoleConnect(scrollThrows) ==
    /\ ~consoleMounted
    /\ nextTimer <= MaxTimers
    /\ visibilityHandlers < MaxHandlers
    /\ consoleMounted' = TRUE
    /\ IF scrollThrows
       THEN UNCHANGED <<refreshInterval, activeTimers, nextTimer, visibilityHandlers>>
       ELSE /\ SetTimers(StartAutoRefresh(Timers))
            /\ visibilityHandlers' = visibilityHandlers + 1
    /\ UNCHANGED <<documentHidden, locationSearch, scoreVars, sqliteVars>>

\* console_controller disconnect()
ConsoleDisconnect ==
    /\ consoleMounted
    /\ consoleMounted' = FALSE
    /\ SetTimers(StopAutoRefresh(Timers))
    /\ visibilityHandlers' = RemoveBoundListener(visibilityHandlers)
    /\ UNCHANGED <<documentHidden, locationSearch, scoreVars, sqliteVars>>

\* The tab is hidden or shown: document.hidden flips and visibilitychange
\* is dispatched on document.
VisibilityChange ==
    /\ documentHidden \/ nextTimer + visibilityHandlers - 1 <= MaxTimers
    /\ documentHidden' = ~documentHidden
    /\ SetTimers(DeliverVisibilityChange(Timers, ~documentHidden, visibilityHandlers))
    /\ UNCHANGED <<consoleMounted, visibilityHandlers, locationSearch, scoreVars>>
    /\ UNCHANGED sqliteVars

\* window.location.reload(): the document, its timers and its listeners go.
Reload ==
    /\ consoleMounted' = FALSE
    /\ refreshInterval' = 0
    /\ activeTimers' = {}
    /\ nextTimer' = 1
    /\ visibilityHandlers' = 0
    /\ UNCHANGED <<documentHidden, locationSearch, scoreVars, sqliteVars>>

\* The callback of interval id (lines 74-78) runs.
TimerTick(id) ==
    /\ id \in activeTimers
    /\ IF ~documentHidden THEN Reload ELSE UNCHANGED vars

\* console_controller refresh(), the refresh button.
ConsoleRefresh ==
    /\ consoleMounted
    /\ Reload

\* The user types into the console's input.
TypeInput(text) ==
    /\ inputValue # text
    /\ inputValue' = text
    /\ UNCHANGED <<history, commandHistory, requests, nextElement>>
    /\ UNCHANGED <<locationSearch, consoleVars, scoreVars>>

\* sqlite_controller executeCommand(), up to the first await.
ExecuteCommand ==
    LET command == Trim(inputValue) IN
    IF command = <<>> THEN UNCHANGED vars
    ELSE /\ Len(requests) < MaxCommands
         /\ history' = AddToHistory(
                AddToHistory(history, nextElement, <<"sqlite> ">> \o command, "user-command"),
                nextElement + 1, <<"Executing...">>, "loading")
         /\ nextElement' = nextElement + 2
         /\ inputValue' = <<>>
         /\ commandHistory' = Append(commandHistory, command)
         /\ requests' = Append(requests,
                [query |-> command, loading |-> nextElement + 1, pc |-> "fetch"])
         /\ UNCHANGED <<locationSearch, consoleVars, scoreVars>>

\* executeCommand() of request n resumes after await fetch(...): the
\* response is OK, has another status, or the request failed.
FetchSettles(n, outcome) ==
    /\ n \in 1..Len(requests)
    /\ requests[n].pc = "fetch"
    /\ LET loading == requests[n].loading IN
       CASE outcome = "ok" ->
              /\ history' = RemoveElement(history, loading)
              /\ nextElement' = nextElement
              /\ requests' = [requests EXCEPT ![n].pc = "json"]
         [] outcome = "status" ->
              /\ history' = AddToHistory(
                     RemoveElement(RemoveElement(history, loading), loading),
                     nextElement, <<"Error: Failed to execute command">>, "command-error")
              /\ nextElement' = nextElement + 1
              /\ requests' = [requests EXCEPT ![n].pc = "done"]
         [] outcome = "reject" ->
              /\ history' = CatchBranch(history, loading, nextElement, "Failed to fetch")
              /\ nextElement' = nextElement + 1
              /\ requests' = [requests EXCEPT ![n].pc = "done"]
    /\ UNCHANGED <<inputValue, commandHistory>>
    /\ UNCHANGED <<locationSearch, consoleVars, scoreVars>>

\* executeCommand() of request n resumes after await response.json().
JsonSettles(n, body) ==
    /\ n \in 1..Len(requests)
    /\ requests[n].pc = "json"
    /\ LET r == ResultOf(body) IN
       history' = IF r.caught
                  THEN CatchBranch(history, requests[n].loading, nextElement, r.message)
                  ELSE AddToHistory(history, nextElement, r.content, r.className)
    /\ nextElement' = nextElement + 1
    /\ requests' = [requests EXCEPT ![n].pc = "done"]
    /\ UNCHANGED <<inputValue, commandHistory>>
    /\ UNCHANGED <<locationSearch, consoleVars, scoreVars>>

\* sqlite_controller clear(): the entries go, the welcome message is not one.
SqliteClear ==
    /\ history # <<>>
    /\ history' = <<>>
    /\ commandHistory' = <<>>
    /\ UNCHANGED <<inputValue, requests, nextElement>>
    /\ UNCHANGED <<locationSearch, consoleVars, scoreVars>>

----------------------------------------------------------------------------
(* Specification of the forms and the banner on one page *)

InitNoDisplay ==
    /\ displayMounted = FALSE
    /\ scoreValue = <<>>
    /\ selectTargets = <<>>

InitNoFilter == locationSearch = <<>>

InitNoConsole ==
    /\ consoleMounted = FALSE
    /\ documentHidden = FALSE
    /\ refreshInterval = 0
    /\ activeTimers = {}
    /\ nextTimer = 1
    /\ visibilityHandlers = 0

InitNoSqlite ==
    /\ history = <<>>
    /\ inputValue = <<>>
    /\ commandHistory = <<>>
    /\ requests = <<>>
    /\ nextElement = 1

InitBus ==
    /\ mounted = [f \in Forms |-> FALSE]
    /\ listeners = <<>>
    /\ buttonColor = [f \in Forms |-> ""]
    /\ dispatched = <<>>
    /\ thrown = <<>>
    /\ bannerMounted = [b \in Banners |-> FALSE]
    /\ innerHTML = [b \in Banners |-> ""]

Init ==
    /\ InitBus
    /\ statusValue \in [Forms -> StatusValues]
    /\ hasButtonTarget \in [Forms -> BOOLEAN]
    /\ fieldTargets = [f \in Forms |-> DefaultFields]
    /\ InitNoDisplay
    /\ InitNoFilter
    /\ InitNoConsole
    /\ InitNoSqlite

Next ==
    \/ \E f \in Forms : FormConnect(f)
    \/ \E f \in Forms : FormDisconnect(f)
    \/ \E f \in Forms, ack \in BOOLEAN : Submit(f, ack)
    \/ CompletionEvent
    \/ \E b \in Banners : BannerConnect(b)
    \/ \E b \in Banners : BannerDisconnect(b)
    \/ \E p \in Payloads : StatusEvent(p)

Spec == Init /\ [][Next]_vars

----------------------------------------------------------------------------
(* Specification of submit() over the field targets of a form *)

RECURSIVE SeqsUpTo(_, _)
SeqsUpTo(S, n) ==
    IF n = 0 THEN {<<>>}
    ELSE LET shorter == SeqsUpTo(S, n - 1) IN
         shorter \cup {Append(q, x) : q \in {r \in shorter : Len(r) = n - 1}, x \in S}

FieldSeqs == SeqsUpTo(Field, MaxFields)

InitFields ==
    /\ InitBus
    /\ statusValue = [f \in Forms |-> "completed"]
    /\ hasButtonTarget = [f \in Forms |-> TRUE]
    /\ fieldTargets \in {[f \in Forms |-> IF f = 1 THEN c ELSE DefaultFields] : c \in FieldSeqs}
    /\ InitNoDisplay
    /\ InitNoFilter
    /\ InitNoConsole
    /\ InitNoSqlite

NextFields ==
    \/ \E f \in Forms : FormConnect(f)
    \/ \E f \in Forms, ack \in BOOLEAN : Submit(f, ack)

SpecFields == InitFields /\ [][NextFields]_vars

----------------------------------------------------------------------------
(* Specification of the display initializer over its inputs *)

InitNoForms ==
    /\ InitBus
    /\ statusValue = [f \in Forms |-> "completed"]
    /\ hasButtonTarget = [f \in Forms |-> TRUE]
    /\ fieldTargets = [f \in Forms |-> DefaultFields]

InitDisplay ==
    /\ InitNoForms
    /\ InitNoFilter
    /\ InitNoConsole
    /\ InitNoSqlite
    /\ displayMounted = FALSE
    /\ scoreValue \in ScoreSerializations
    /\ selectTargets \in SeqsUpTo(Select, MaxSelects)

NextDisplay ==
    \/ DisplayConnect
    \/ DisplayDisconnect

SpecDisplay == InitDisplay /\ [][NextDisplay]_vars

----------------------------------------------------------------------------
(* Specification of the filter controller over query strings *)

InitFilter ==
    /\ InitNoForms
    /\ InitNoDisplay
    /\ locationSearch \in InitialSearches
    /\ InitNoConsole
    /\ InitNoSqlite

NextFilter ==
    \/ \E key \in FilterKeys, value \in FilterValues : Filter(key, value)
    \/ Navigate

SpecFilter == InitFilter /\ [][NextFilter]_vars

----------------------------------------------------------------------------
(* Specification of the log viewer on one page *)

InitConsole ==
    /\ InitNoForms
    /\ InitNoDisplay
    /\ InitNoFilter
    /\ InitNoSqlite
    /\ consoleMounted = FALSE
    /\ documentHidden \in BOOLEAN
    /\ refreshInterval = 0
    /\ activeTimers = {}
    /\ nextTimer = 1
    /\ visibilityHandlers = 0

NextConsole ==
    \/ \E scrollThrows \in BOOLEAN : ConsoleConnect(scrollThrows)
    \/ ConsoleDisconnect
    \/ VisibilityChange
    \/ \E id \in 1..MaxTimers : TimerTick(id)
    \/ ConsoleRefresh

SpecConsole == InitConsole /\ [][NextConsole]_vars

----------------------------------------------------------------------------
(* Specification of the admin query console *)

InitSqlite ==
    /\ InitNoForms
    /\ InitNoDisplay
    /\ InitNoFilter
    /\ InitNoConsole
    /\ InitNoSqlite

NextSqlite ==
    \/ \E text \in CommandInputs : TypeInput(text)
    \/ ExecuteCommand
    \/ \E n \in 1..MaxCommands, outcome \in FetchOutcomes : FetchSettles(n, outcome)
    \/ \E n \in 1..MaxCommands, body \in Bodies : JsonSettles(n, body)
    \/ SqliteClear

SpecSqlite == InitSqlite /\ [][NextSqlite]_vars

----------------------------------------------------------------------------
(* Properties of the score entry form and of the listener list *)

\* The step is one delivery of scoreUpdateSubmitted from the page.
CompletionStep == dispatched' = <<ScoreUpdateSubmitted>>

\* The step is a submit() of form f.
SubmitStep(f) ==
    /\ dispatched' # <<>>
    /\ dispatched'[1].name = "scoreUpdate"
    /\ dispatched'[1].detail.event_id = FormTargetId(f)

ListenerCount(type, owner) ==
    Cardinality({i \in 1..Len(listeners) : listeners[i] = [type |-> type, owner |-> owner]})

\* C1: a completion event delivered to a mounted form that has a status
\* control turns `pending` into `completed` with a green control, and leaves a
\* `completed` form's status and colour as they were.
C1_CompletionEvent ==
    [][\A f \in Forms :
        (CompletionStep /\ mounted[f] /\ hasButtonTarget[f]) =>
            /\ statusValue[f] = "pending" =>
                   (statusValue'[f] = "completed" /\ buttonColor'[f] = "green")
            /\ statusValue[f] = "completed" =>
                   (statusValue'[f] = "completed" /\ buttonColor'[f] = buttonColor[f])]_vars

C1_Witness ==
    \E f \in Forms :
        /\ mounted[f] /\ hasButtonTarget[f]
        /\ dispatched = <<ScoreUpdateSubmitted>>
        /\ statusValue[f] = "completed" /\ buttonColor[f] = "green"

\* C2: submit() can be taken by every mounted form whatever its status and
\* publishes the submission event; with a status control the form ends
\* `pending` and yellow, without one its status and colour are untouched.
C2_Submit ==
    /\ [](\A f \in Forms :
             mounted[f] => SubmitGuard(f))
    /\ [][\A f \in Forms :
            SubmitStep(f) =>
              IF hasButtonTarget[f]
              THEN statusValue'[f] = "pending" /\ buttonColor'[f] = "yellow"
              ELSE statusValue'[f] = statusValue[f] /\ buttonColor'[f] = buttonColor[f]]_vars

C2_Witness ==
    \E f \in Forms :
        /\ mounted[f] /\ hasButtonTarget[f]
        /\ dispatched = <<ScoreUpdate(f)>>
        /\ statusValue[f] = "pending" /\ buttonColor[f] = "yellow"

\* C3: one completion event completes every mounted form that was `pending`
\* when it was delivered.
C3_Broadcast ==
    [][CompletionStep =>
        \A f \in Forms :
            (mounted[f] /\ statusValue[f] = "pending") => statusValue'[f] = "completed"]_vars

\* C4 as stated: the status of a mounted form never moves from `completed`
\* back to `pending`.
C4_NeverBackward ==
    [][\A f \in Forms :
        (mounted[f] /\ statusValue[f] = "completed") => statusValue'[f] # "pending"]_vars

\* C4 amended: a delivery of the completion event never changes a
\* `completed` form, and the only step that takes a form from `completed`
\* back to `pending` is that form's own submit() with a status control.
C4_BackwardOnlyBySubmit ==
    [][\A f \in Forms :
        /\ (CompletionStep /\ statusValue[f] = "completed") => statusValue'[f] = "completed"
        /\ (statusValue[f] = "completed" /\ statusValue'[f] = "pending") =>
               (SubmitStep(f) /\ mounted[f] /\ hasButtonTarget[f])]_vars

C4_Witness ==
    \E f \in Forms :
        /\ mounted[f] /\ hasButtonTarget[f]
        /\ buttonColor[f] = "yellow" /\ statusValue[f] = "pending"
        /\ Len(dispatched) = 2
        /\ dispatched[1] = ScoreUpdate(f)

C6_CompletionWithoutButton ==
    [][\A f \in Forms :
        (CompletionStep /\ mounted[f] /\ ~hasButtonTarget[f] /\ statusValue[f] = "pending") =>
            (statusValue'[f] = "completed" /\ thrown' = <<>>)]_vars

\* C8: the listener list holds exactly one scoreUpdateSubmitted listener per
\* mounted form and one updateStatus listener per mounted banner, and none
\* for a disconnected one.
C8_ListenersMatchMounted ==
    /\ \A f \in Forms :
          ListenerCount("scoreUpdateSubmitted", f) = (IF mounted[f] THEN 1 ELSE 0)
    /\ \A b \in Banners :
          ListenerCount("updateStatus", b) = (IF bannerMounted[b] THEN 1 ELSE 0)

----------------------------------------------------------------------------
(* Properties of the submission envelope *)

DashPositions(id) == {i \in 1..Len(id) : id[i] = "-"}

NthDash(id, n) ==
    CHOOSE i \in DashPositions(id) : Cardinality({j \in DashPositions(id) : j < i}) = n - 1

\* The text between the third dash and the fourth (or the end); the key
\* `undefined` when the id has fewer than three dashes.
FourthSegment(id) ==
    IF Cardinality(DashPositions(id)) < 3 THEN Undefined
    ELSE SubSeq(id, NthDash(id, 3) + 1,
                IF Cardinality(DashPositions(id)) >= 4 THEN NthDash(id, 4) - 1 ELSE Len(id))

LastFieldWith(flds, k) ==
    CHOOSE i \in 1..Len(flds) :
        /\ FourthSegment(flds[i].id) = k
        /\ \A j \in 1..Len(flds) : FourthSegment(flds[j].id) = k => j <= i

ExpectedScores(flds) ==
    [k \in {FourthSegment(flds[i].id) : i \in 1..Len(flds)} |->
        flds[LastFieldWith(flds, k)].value]

\* C7: after submit() of form f exactly one scoreUpdate event was dispatched;
\* its event_id is the form target's id and its scores map has one entry per
\* distinct fourth segment of the field ids (`undefined` when there is none),
\* holding the value of the last field in scope order with that key.
C7_Envelope ==
    \A f \in Forms :
        (dispatched # <<>> /\ dispatched[1].name = "scoreUpdate"
            /\ dispatched[1].detail.event_id = FormTargetId(f)) =>
            /\ Cardinality({i \in 1..Len(dispatched) : dispatched[i].name = "scoreUpdate"}) = 1
            /\ DOMAIN dispatched[1].detail.scores = DOMAIN ExpectedScores(fieldTargets[f])
            /\ \A k \in DOMAIN dispatched[1].detail.scores :
                   dispatched[1].detail.scores[k] = ExpectedScores(fieldTargets[f])[k]

C7_Witness ==
    \E f \in Forms :
        /\ dispatched # <<>> /\ dispatched[1].name = "scoreUpdate"
        /\ dispatched[1].detail.event_id = FormTargetId(f)
        /\ Len(fieldTargets[f]) = 2
        /\ fieldTargets[f][1].id = Id_evt1 /\ fieldTargets[f][1].value = "5"
        /\ fieldTargets[f][2].id = Id_long /\ fieldTargets[f][2].value = "2"
        /\ DOMAIN dispatched[1].detail.scores = {<<"x">>}
        /\ dispatched[1].detail.scores[<<"x">>] = "2"

----------------------------------------------------------------------------
(* Properties of the score display initializer *)

\* The step is a connect() of the display initializer.
DisplayConnectStep == ~displayMounted /\ displayMounted'

\* The serialization parses to a JSON object, the shape of a ScoreMap.
IsScoreMap(sv) == JSONParse(sv).ok /\ JSONParse(sv).v.t = "obj"

C10_MalformedFallsBack ==
    [][(DisplayConnectStep /\ ~IsScoreMap(scoreValue)) =>
        /\ thrown' = <<>>
        /\ \A i \in 1..Len(selectTargets') : selectTargets'[i].value = Zero]_vars

----------------------------------------------------------------------------
(* Properties of the filter controller *)

\* The event the step dispatched, read as name/value pairs.
PublishedPairs == URLSearchParams(dispatched'[1].detail.params)

PairsNamed(params, name) == {i \in 1..Len(params) : params[i].name = name}

\* C11: filter() with value "all" publishes a query without the key; with
\* another value it publishes a query holding the key once, with that
\* value; either way the pairs of every other key are those of the current
\* query, in their order.
C11_FilterSentinel ==
    [][\A key \in FilterKeys, value \in FilterValues :
        Filter(key, value) =>
            /\ WithoutName(PublishedPairs, key) =
                   WithoutName(URLSearchParams(locationSearch), key)
            /\ value = All => PairsNamed(PublishedPairs, key) = {}
            /\ value # All =>
                   /\ Cardinality(PairsNamed(PublishedPairs, key)) = 1
                   /\ \A i \in PairsNamed(PublishedPairs, key) :
                          PublishedPairs[i].value = value]_vars

\* The second half of the scenario: at ?house=red&year=2024, house=all
\* gives ?year=2024.
C11_Witness ==
    /\ locationSearch = <<"?">> \o House \o <<"=">> \o Red \o <<"&">> \o Year \o <<"=">> \o Y2024
    /\ dispatched # <<>>
    /\ dispatched[1].name = "doSafeScoreRedirect"
    /\ dispatched[1].detail.params = <<"?">> \o Year \o <<"=">> \o Y2024

\* C12: filter() dispatches exactly one doSafeScoreRedirect event, whose
\* params begin with "?", and leaves location.search as it was, so that a
\* second filter() before any navigation reads the same query.
C12_FilterOnlyPublishes ==
    [][\A key \in FilterKeys, value \in FilterValues :
        Filter(key, value) =>
            /\ Len(dispatched') = 1
            /\ dispatched'[1].name = "doSafeScoreRedirect"
            /\ dispatched'[1].detail.params # <<>>
            /\ Head(dispatched'[1].detail.params) = "?"
            /\ locationSearch' = locationSearch]_vars

\* A request is outstanding for a query other than the page's own.
C12_Witness ==
    /\ dispatched # <<>>
    /\ dispatched[1].name = "doSafeScoreRedirect"
    /\ locationSearch = Q_scenario
    /\ dispatched[1].detail.params = <<"?">> \o Year \o <<"=">> \o Y2024

\* The step delivers an updateStatus event.
StatusStep == dispatched' # <<>> /\ dispatched'[1].name = "updateStatus"

\* C13: a status-update event leaves every mounted banner showing exactly
\* that event's payload, whatever the banner showed before; a step that
\* delivers no status-update event leaves the banner's content as it was.
C13_LastEventWins ==
    [][\A b \in Banners :
          (bannerMounted[b] /\ ListenerCount("updateStatus", b) > 0) =>
              IF StatusStep
              THEN innerHTML'[b] = dispatched'[1].detail.status
              ELSE innerHTML'[b] = innerHTML[b]]_vars

C13_Witness ==
    \E b \in Banners :
        /\ bannerMounted[b]
        /\ dispatched = <<UpdateStatus("saving")>>
        /\ innerHTML[b] = "saving"
        /\ ListenerCount("updateStatus", b) = 2

\* The same controls holding other values.
WithValues(sels, vals) == [i \in 1..Len(sels) |-> [sels[i] EXCEPT !.value = vals[i]]]

\* C14: the control values connect() leaves are those a further connect()
\* with the same serialization would leave, and those connect() would have
\* left had the controls held any other values before.
C14_Idempotent ==
    [][DisplayConnectStep =>
        /\ ForEachSelect(scoreValue', selectTargets', 1).sels = selectTargets'
        /\ \A vals \in [1..Len(selectTargets) -> SelectValuesBefore \cup {Zero}] :
              ForEachSelect(scoreValue, WithValues(selectTargets, vals), 1).sels
                  = selectTargets']_vars

C14_Witness ==
    /\ displayMounted
    /\ scoreValue = S_two
    /\ Len(selectTargets) = 2
    /\ selectTargets[1] = [formId |-> <<"e","1">>, value |-> <<"1","2">>]
    /\ selectTargets[2] = [formId |-> NoAttribute, value |-> Zero]

\* C15: a step changes the status and colour of a form only if the form had
\* a listener registered before the step, and the content of a banner only if
\* the banner had one: the connect step itself and every event before it
\* leave them as the page rendered them.
C15_NoReplay ==
    [][/\ \A f \in Forms :
            ListenerCount("scoreUpdateSubmitted", f) = 0 =>
                statusValue'[f] = statusValue[f] /\ buttonColor'[f] = buttonColor[f]
       /\ \A b \in Banners :
            ListenerCount("updateStatus", b) = 0 => innerHTML'[b] = innerHTML[b]]_vars

C15_Witness ==
    \E f, g \in Forms :
        /\ dispatched = <<ScoreUpdateSubmitted>>
        /\ ~mounted[f] /\ ListenerCount("scoreUpdateSubmitted", f) = 0
        /\ statusValue[f] = "pending" /\ hasButtonTarget[f]
        /\ mounted[g] /\ statusValue[g] = "completed" /\ buttonColor[g] = "green"

\* C16: when a completion event is published from inside the delivery of
\* form f's submission event, the other `pending` forms that listen are
\* completed by it within the same submit(), while f, whose status is written
\* only after the delivery has returned, is `pending` and yellow when
\* submit() returns, whether it was `completed` or `pending` before.
C16_StatusAfterDelivery ==
    [][\A f \in Forms :
        (SubmitStep(f) /\ Len(dispatched') = 2 /\ hasButtonTarget[f]) =>
            /\ dispatched'[2] = ScoreUpdateSubmitted
            /\ statusValue'[f] = "pending" /\ buttonColor'[f] = "yellow"
            /\ \A g \in Forms \ {f} :
                 (ListenerCount("scoreUpdateSubmitted", g) > 0
                    /\ statusValue[g] = "pending" /\ hasButtonTarget[g]) =>
                     statusValue'[g] = "completed" /\ buttonColor'[g] = "green"]_vars

C16_Witness ==
    \E f, g \in Forms :
        /\ f # g
        /\ dispatched = <<ScoreUpdate(f), ScoreUpdateSubmitted>>
        /\ mounted[f] /\ hasButtonTarget[f]
        /\ statusValue[f] = "pending" /\ buttonColor[f] = "yellow"
        /\ mounted[g] /\ statusValue[g] = "completed" /\ buttonColor[g] = "green"

\* C17: at most one auto-refresh interval of the log viewer is active.
C17_AtMostOneTimer == Cardinality(activeTimers) <= 1

\* C18: a disconnected log viewer has no active interval and no registered
\* visibilitychange listener.
C18_DisconnectReleases ==
    ~consoleMounted => (activeTimers = {} /\ visibilityHandlers = 0)

Classes(h) == [i \in 1..Len(h) |-> h[i].className]
ResultClasses == {"command-output", "command-error"}

\* C19: the loading indicators shown are those of the requests still being
\* fetched; a step that sends a request starts from a non-blank input and
\* appends the trimmed command's entry and a loading indicator; the step that
\* finishes a request leaves the history without that request's indicator
\* and with exactly one new entry, an output or an error; a step that ends
\* only the fetch just removes the indicator; and from a blank input no step
\* sends a request or appends a command entry.
C19_LoadingAndResult ==
    /\ [](\A i \in 1..Len(history) :
             history[i].className = "loading" =>
                 \E n \in 1..Len(requests) :
                     requests[n].pc = "fetch" /\ requests[n].loading = history[i].id)
    /\ [][/\ Len(requests') > Len(requests) =>
               /\ Trim(inputValue) # <<>>
               /\ Len(requests') = Len(requests) + 1
               /\ requests'[Len(requests')].query = Trim(inputValue)
               /\ Len(history') = Len(history) + 2
               /\ SubSeq(history', 1, Len(history)) = history
               /\ history'[Len(history) + 1].className = "user-command"
               /\ history'[Len(history) + 1].content = <<"sqlite> ">> \o Trim(inputValue)
               /\ history'[Len(history) + 2].className = "loading"
               /\ history'[Len(history) + 2].id = requests'[Len(requests')].loading
          /\ Trim(inputValue) = <<>> =>
               /\ Len(requests') = Len(requests)
               /\ ~(Len(history') > Len(history)
                      /\ history'[Len(history')].className \in {"user-command", "loading"})
          /\ \A n \in 1..Len(requests) :
               LET rest == RemoveElement(history, requests[n].loading) IN
               /\ (requests[n].pc # "done" /\ requests'[n].pc = "done") =>
                     /\ Len(history') = Len(rest) + 1
                     /\ SubSeq(history', 1, Len(rest)) = rest
                     /\ history'[Len(history')].className \in ResultClasses
               /\ (requests[n].pc = "fetch" /\ requests'[n].pc = "json") =>
                     history' = rest]_vars

C19_Witness ==
    /\ Len(requests) = 2
    /\ \A n \in 1..2 : requests[n].pc = "done"
    /\ Classes(history) =
           <<"user-command", "user-command", "command-error", "command-output">>
    /\ history[4].content = <<"Query executed successfully.">>

====
